---- MODULE Spec2Model ----
(***************************************************************************)
(* rss2epub: the FeedMailer cache/ledger bookkeeping of src/src/main.ts.   *)
(*                                                                         *)
(* One process (constructor + the command loop at the bottom of main.ts)   *)
(* runs the commands sync, send-indiviudal and send-amalgamate against a   *)
(* cache file .rss2epub.json and the <id>.html bodies of one directory.    *)
(* Every command starts with readCache and ends with writeCache, and a     *)
(* command that throws rejects the top-level async function, so that the   *)
(* in-memory cache dies with the process: a step of the model is one       *)
(* command run from what is on disk, and the state is what is on disk,     *)
(* what the transport accepted, and a record `last` of the latest run.     *)
(*                                                                         *)
(* Abstractions: sentAt (wall clock) is left out of a log entry; the       *)
(* feedItem fields id (guid) and description are copied verbatim exactly   *)
(* like title and are left out; readabilityMeta is one value standing for  *)
(* its five fields, which are copied together from one extractor result.   *)
(* JSON.stringify/JSON.parse of a FeedCache keep key order, arrays,        *)
(* strings and booleans, and an undefined pubDate reads back undefined, so *)
(* the file holds the FeedCache value itself.                              *)
(*                                                                         *)
(* The later revision (src/unnamed/part_002) is modelled beside it where   *)
(* it differs: the FeedMailer that fetches the pages at send time (names   *)
(* ending in 2), fetchArticlesFromFeed, and main with its invocation.      *)
(* StateManager.getSentArtcles is the query of src/src/state.ts.           *)
(***************************************************************************)
EXTENDS Integers, Sequences, FiniteSets, TLC

\* ----------------------------------------------------------------- bounds
\* Longest feed served, and longest email log the send runs build.
MaxFeedLen == 3
MaxEmails == 3
\* Commands run in one behaviour.
MaxRuns == 3
\* Longest email log a sent-articles query is asked about.
MaxLogged == 3
\* Latest publication date of a fetched feed, and largest --max asked for.
MaxDate == 3
MaxPick == 3
\* Longest feed whose links carry fragments.
MaxHashedLen == 2
\* Commands the FeedMailer that fetches at send time runs in one behaviour.
MaxRuns2 == 2

Urls == {"u1", "u2", "u3"}
Recipients == {"r1", "r2"}
Titles == {"t1", "t2"}
Dates == {1, 2}

\* ------------------------------------------------------------ data model
\* A value JavaScript leaves undefined (and the empty string) is falsy.
Undefined == "undefined"
Falsy(v) == v \in {Undefined, ""}

\* pubDate is an ISO string or undefined: <<d>> or <<>>.
NoDate == <<>>
PubDates == {<<d>> : d \in Dates} \cup {NoDate}

\* A link is a URL: the part before the fragment, and the fragment.
\* An item without a link has link undefined.
Links == [base : Urls, hash : {""}]
NoLink == [base |-> Undefined, hash |-> ""]

\* An item as rss-parser yields it. Every link is served dated; the last
\* link is also served in a later revision, retitled and without a date.
FirstDate == [u \in Urls |-> IF u = "u1" THEN 1 ELSE 2]
Revised == {l \in Links : l.base = "u3"}

FeedItems ==
    {[title |-> "t1", link |-> l, pubDate |-> <<FirstDate[l.base]>>] : l \in Links}
    \cup {[title |-> "t2", link |-> l, pubDate |-> NoDate] : l \in Revised}
    \cup {[title |-> "t1", link |-> NoLink, pubDate |-> NoDate]}

\* md5 hex digest of a string: an injective tag on the hashed text.
md5(text) == <<"md5", text>>

\* url.hash = ""; url.toString(): the URL without its fragment.
\* Mutant: the fragment is left on the link.
StripHashKeep(link) == link

StripHash(link) == [link EXCEPT !.hash = ""]

\* url.toString()
UrlToString(link) ==
    IF link.hash = "" THEN <<link.base>> ELSE <<link.base, "#", link.hash>>

ArticleId(link) == md5(UrlToString(StripHash(link)))

Ids == {ArticleId(l) : l \in Links}

\* FeedCache.articles is an object: its entries in insertion order, each
\* [id, deleted, feedItem, readabilityMeta]. emails is the send log.
EmptyCache == [emails |-> <<>>, articles |-> <<>>]

\* The cache file: absent (ENOENT), or the FeedCache last written.
NoFile == [exists |-> FALSE, parses |-> FALSE, data |-> EmptyCache]

\* A cache file that is there and that readFileSync or JSON.parse rejects.
GarbageFile == [exists |-> TRUE, parses |-> FALSE, data |-> EmptyCache]

Range(seq) == {seq[i] : i \in 1..Len(seq)}

RECURSIVE IndexOfId(_, _)
IndexOfId(articles, id) ==
    IF articles = <<>> THEN 0
    ELSE IF articles[Len(articles)].id = id THEN Len(articles)
    ELSE IndexOfId(SubSeq(articles, 1, Len(articles) - 1), id)

_isArticleCached(c, id) == \E i \in 1..Len(c.articles) : c.articles[i].id = id

_getArticleById(c, id) == c.articles[IndexOfId(c.articles, id)]

Keys(c) == {c.articles[i].id : i \in 1..Len(c.articles)}

\* ------------------------------------------------------------- the state
VARIABLES
    cacheFile,  \* .rss2epub.json on disk: NoFile or a FeedCache
    htmlFiles,  \* ids whose <id>.html body is on disk
    feed,       \* the feed the site serves while it stays unchanged
    runs,       \* commands run so far
    last,       \* what the last command was given and how it ended
    delivered,  \* emails the transport accepted: <<recipient, id>> |-> count
    query,      \* the last getSentArtcleIds call and what it returned
    fetched,    \* the last fetchArticlesFromFeed call and the items it selected
    cli         \* the last run of the command line of main and how it ended

vars == <<cacheFile, htmlFiles, feed, runs, last, delivered, query, fetched, cli>>

\* readCache: Object.assign(this._cache, JSON.parse(file)); ENOENT is ignored.
readCache(c, file) ==
    IF ~file.exists THEN c
    ELSE [c EXCEPT !.emails = file.data.emails, !.articles = file.data.articles]

\* writeCache: the file becomes JSON.stringify(this._cache).
writeCache(c) == [exists |-> TRUE, parses |-> TRUE, data |-> c]

\* Mutant: every error of the read is swallowed like ENOENT.
readCacheNeverThrows(file) == FALSE

\* readCache rethrows whatever the read or the parse threw, ENOENT excepted.
readCacheThrows(file) == file.exists /\ ~file.parses

\* ------------------------------------------------------------- send log
RECURSIVE FlatMapArticlesSent(_)
FlatMapArticlesSent(entries) ==
    IF entries = <<>> THEN <<>>
    ELSE Head(entries).articlesSent \o FlatMapArticlesSent(Tail(entries))

\* Mutant: the status of the entry is not looked at.
IsSentToAnyStatus(e, to) == Falsy(to) \/ e.sentTo = to

IsSentTo(e, to) == e.status = "SUCCESS" /\ (Falsy(to) \/ e.sentTo = to)

\* emails.filter(SUCCESS and (!to or sentTo == to)).flatMap(articlesSent)
getSentArtcleIds(c, to) ==
    FlatMapArticlesSent(SelectSeq(c.emails, LAMBDA e : IsSentTo(e, to)))

IsUnsent(a, sent) == a.id \notin Range(sent)

\* Object.entries(articles).filter(([id]) => !sent.includes(id))
getUnsent(c, to) ==
    LET sent == getSentArtcleIds(c, to)
    IN  SelectSeq(c.articles, LAMBDA a : IsUnsent(a, sent))

IdsOf(entries) == [i \in 1..Len(entries) |-> entries[i].id]

\* Mutant: the entry is put in front of the log.
_logSendFront(c, to, articles, status) ==
    [c EXCEPT !.emails = <<[sentTo |-> to, articlesSent |-> articles, status |-> status]>> \o @]

_logSend(c, to, articles, status) ==
    [c EXCEPT !.emails = Append(@, [sentTo |-> to, articlesSent |-> articles,
                                     status |-> status])]

\* Mutant: an article whose body file is missing is left out of the book.
RECURSIVE makeEpubSkipMissing(_, _, _)
makeEpubSkipMissing(c, html, articleIds) ==
    IF articleIds = <<>> THEN "none"
    ELSE IF ~_isArticleCached(c, Head(articleIds)) THEN "noarticle"
    ELSE makeEpubSkipMissing(c, html, Tail(articleIds))

\* makeEpub gathers every article before building: the first id without an
\* entry, or with an entry and no <id>.html, makes it throw.
RECURSIVE makeEpub(_, _, _)
makeEpub(c, html, articleIds) ==
    IF articleIds = <<>> THEN "none"
    ELSE IF ~_isArticleCached(c, Head(articleIds)) THEN "noarticle"
    ELSE IF Head(articleIds) \notin html THEN "badcache"
    ELSE makeEpub(c, html, Tail(articleIds))


\* ------------------------------------------------------------- ordering
\* The comparator of sendAllAmalgamate: Date.parse(a1) - Date.parse(a2).
\* Date.parse(undefined) is NaN, which Array.prototype.sort reads as +0.
CompareDates(a1, a2) ==
    IF a1.feedItem.pubDate = NoDate \/ a2.feedItem.pubDate = NoDate THEN 0
    ELSE a1.feedItem.pubDate[1] - a2.feedItem.pubDate[1]

\* A comparator that is not consistent (here: "equal" is not transitive,
\* an undated entry beside two different dates) leaves the order
\* implementation-defined.
ConsistentComparator(entries) ==
    \A a, b, d \in Range(entries) :
        (CompareDates(a, b) = 0 /\ CompareDates(b, d) = 0) => CompareDates(a, d) = 0

RECURSIVE InsertSorted(_, _)
InsertSorted(sorted, x) ==
    IF sorted = <<>> THEN <<x>>
    ELSE IF CompareDates(sorted[Len(sorted)], x) <= 0 THEN Append(sorted, x)
    ELSE Append(InsertSorted(SubSeq(sorted, 1, Len(sorted) - 1), x), sorted[Len(sorted)])

RECURSIVE StableSort(_)
StableSort(entries) ==
    IF entries = <<>> THEN <<>>
    ELSE InsertSorted(StableSort(SubSeq(entries, 1, Len(entries) - 1)), entries[Len(entries)])

OrdersOf(entries) ==
    {p \in [1..Len(entries) -> Range(entries)] : Range(p) = Range(entries)}

\* unsentArticleIds.sort(...): every order the sort may leave.
SortOutcomes(entries) ==
    IF ConsistentComparator(entries) THEN {StableSort(entries)}
    ELSE OrdersOf(entries)

Reverse(seq) == [i \in 1..Len(seq) |-> seq[Len(seq) + 1 - i]]

\* The command loop calls sendAllAmalgamate({cronological: true, reversed: true}).
MainAmalgamateOpts == [cronological |-> TRUE, reversed |-> TRUE]

\* The id sequences sendAllAmalgamate may hand to makeEpub.
AmalgamateSelections(c, to, opts) ==
    LET unsent   == getUnsent(c, to)
        sorted   == IF opts.cronological THEN SortOutcomes(unsent) ELSE {unsent}
        ordered  == IF opts.reversed THEN {Reverse(e) : e \in sorted} ELSE sorted
    IN  {IdsOf(e) : e \in ordered}

\* ----------------------------------------------------------------- sync
\* What getArticle(link) does for one item: it parses the page, or throws.
ExtractResults == {"parsed", "throws"}

\* The metadata Readability reads off the page of an item.
PageMeta == [t \in Titles |-> IF t = "t1" THEN "m1" ELSE "m2"]

\* A feed lists a link once.
Feeds ==
    {f \in UNION {[1..n -> FeedItems] : n \in 0..MaxFeedLen} :
        \A i, j \in 1..Len(f) : f[i].link = f[j].link => i = j}

\* idsInFeed.push(id)
Seen(st, id) == [st EXCEPT !.idsInFeed = Append(@, id)]

\* Mutant: the cache is never consulted.
IsCachedNever(c, id) == FALSE

\* Mutant: a record flagged deleted counts as not cached.
IsCachedLive(c, id) ==
    IndexOfId(c.articles, id) # 0 /\ ~c.articles[IndexOfId(c.articles, id)].deleted

\* this._getArticleById(id) != undefined
IsCached(c, id) == IndexOfId(c.articles, id) # 0

\* this._cache.articles[id] = entry: a new key goes last, an old key keeps
\* its place.
PutArticle(articles, entry) ==
    IF IndexOfId(articles, entry.id) = 0 THEN Append(articles, entry)
    ELSE [articles EXCEPT ![IndexOfId(articles, entry.id)] = entry]

\* The entry built from a feed item and the parsed page.
NewArticle(id, item) ==
    [id |-> id, deleted |-> FALSE,
     feedItem |-> [title |-> item.title, link |-> item.link, pubDate |-> item.pubDate],
     readabilityMeta |-> PageMeta[item.title]]

\* The body of the for loop of downloadFeedItems from item k on.
\* st = [cache, html, idsInFeed, calls, failed, error]; new URL(undefined)
\* throws.
RECURSIVE SyncLoop(_, _, _, _)
SyncLoop(st, items, outcomes, k) ==
    IF k > Len(items) THEN st
    ELSE IF items[k].link = NoLink THEN [st EXCEPT !.error = "url"]
    ELSE
        LET id   == ArticleId(items[k].link)
            seen == Seen(st, id)
        IN  IF IsCached(st.cache, id) THEN SyncLoop(seen, items, outcomes, k + 1)
            ELSE IF outcomes[k] = "throws"
                 THEN SyncLoop([seen EXCEPT !.calls = @ + 1, !.failed = @ \cup {id}],
                               items, outcomes, k + 1)
            ELSE SyncLoop(
                    [seen EXCEPT
                        !.calls = @ + 1,
                        !.html = @ \cup {id},
                        !.cache.articles = PutArticle(@, NewArticle(id, items[k]))],
                    items, outcomes, k + 1)

\* Mutant: the flag follows the feed both ways.
MarkDeletedByFeed(c, idsInFeed) ==
    [c EXCEPT !.articles =
        [i \in 1..Len(c.articles) |->
            [c.articles[i] EXCEPT !.deleted = (c.articles[i].id \notin Range(idsInFeed))]]]

\* Mutant: a record that left the feed is removed from the store.
MarkDeletedRemoves(c, idsInFeed) ==
    [c EXCEPT !.articles = SelectSeq(c.articles, LAMBDA a : a.id \in Range(idsInFeed))]

\* for (id in articles) if (!idsInFeed.includes(id)) articles[id].deleted = true
MarkDeleted(c, idsInFeed) ==
    [c EXCEPT !.articles =
        [i \in 1..Len(@) |->
            IF @[i].id \notin Range(idsInFeed) THEN [@[i] EXCEPT !.deleted = TRUE]
            ELSE @[i]]]

\* Mutant: the records are put and no body file is written.
downloadFeedItemsNoBody(c, file, html, items, outcomes) ==
    LET st == SyncLoop([cache |-> readCache(c, file), html |-> html,
                        idsInFeed |-> <<>>, calls |-> 0, failed |-> {},
                        error |-> "none"],
                       items, outcomes, 1)
    IN  IF st.error = "none"
        THEN [st EXCEPT !.cache = MarkDeleted(@, st.idsInFeed), !.html = html]
        ELSE [st EXCEPT !.html = html]

\* downloadFeedItems after rssParser.parseURL returned `items`.
downloadFeedItems(c, file, html, items, outcomes) ==
    LET st == SyncLoop([cache |-> readCache(c, file), html |-> html,
                        idsInFeed |-> <<>>, calls |-> 0, failed |-> {},
                        error |-> "none"],
                       items, outcomes, 1)
    IN  IF st.error = "none"
        THEN [st EXCEPT !.cache = MarkDeleted(@, st.idsInFeed)]
        ELSE st

\* An outcome is asked of the extractor only where the loop can call it.
MayExtract(c0, items, k) ==
    /\ \A j \in 1..k : items[j].link # NoLink
    /\ ~IsCached(c0, ArticleId(items[k].link))

OutcomesFor(c0, items) ==
    {o \in [1..Len(items) -> ExtractResults] :
        \A k \in 1..Len(items) : ~MayExtract(c0, items, k) => o[k] = "throws"}

\* ----------------------------------------------------------------- send
\* What a send is made to do: nothing, or make the failAt-th email of the
\* run fail while rendering the EPUB or in the transport.
SendErrors == {"render", "send"}

\* The for loop of sendAllIndividual over the unsent ids, from the k-th on.
\* A throw leaves the loop: st.failAt is the article it happened at.
RECURSIVE IndividualLoop(_, _, _, _, _)
IndividualLoop(st, to, ids, fault, k) ==
    IF k > Len(ids) THEN st
    ELSE
        LET epub == makeEpub(st.cache, st.html, <<ids[k]>>)
        IN  IF epub # "none" THEN [st EXCEPT !.error = epub, !.failAt = k]
            ELSE IF fault.failAt = k THEN [st EXCEPT !.error = fault.error, !.failAt = k]
            ELSE IndividualLoop(
                    [st EXCEPT !.cache = _logSend(@, to, <<ids[k]>>, "SUCCESS"),
                               !.sent = Append(@, <<ids[k]>>)],
                    to, ids, fault, k + 1)

\* sendAllIndividual with a mail config: [cache, html, error, failAt, sent, batch]
sendAllIndividual(c, file, html, to, fault) ==
    LET c0  == readCache(c, file)
        ids == IdsOf(getUnsent(c0, to))
    IN  [IndividualLoop([cache |-> c0, html |-> html, error |-> "none", failAt |-> 0,
                         sent |-> <<>>, batch |-> ids],
                        to, ids, fault, 1) EXCEPT !.batch = ids]

\* Mutant: the entry is logged before the email is handed to the transport.
sendAllAmalgamateLogFirst(c, file, html, to, ids, fault) ==
    LET c0   == readCache(c, file)
        st   == [cache |-> c0, html |-> html, error |-> "none", failAt |-> 0,
                 sent |-> <<>>, batch |-> ids]
        epub == makeEpub(c0, html, ids)
    IN  IF epub # "none" THEN [st EXCEPT !.error = epub, !.failAt = 1]
        ELSE IF fault.failAt = 1
             THEN [st EXCEPT !.cache = _logSend(@, to, ids, "SUCCESS"),
                             !.error = fault.error, !.failAt = 1]
        ELSE [st EXCEPT !.cache = _logSend(@, to, ids, "SUCCESS"),
                        !.sent = <<ids>>]

\* sendAllAmalgamate with a mail config, `ids` being the order the sort left.
sendAllAmalgamate(c, file, html, to, ids, fault) ==
    LET c0   == readCache(c, file)
        st   == [cache |-> c0, html |-> html, error |-> "none", failAt |-> 0,
                 sent |-> <<>>, batch |-> ids]
        epub == makeEpub(c0, html, ids)
    IN  IF epub # "none" THEN [st EXCEPT !.error = epub, !.failAt = 1]
        ELSE IF fault.failAt = 1 THEN [st EXCEPT !.error = fault.error, !.failAt = 1]
        ELSE [st EXCEPT !.cache = _logSend(@, to, ids, "SUCCESS"),
                        !.sent = <<ids>>]

NoFault == [failAt |-> 0, error |-> "none"]
Faults(n) == {NoFault} \cup [failAt : 1..n, error : SendErrors]

\* The transport accepted one email per element of `sent`.
Deliver(d, to, sent) ==
    [p \in DOMAIN d |->
        LET n == Cardinality({i \in 1..Len(sent) : p[1] = to /\ p[2] \in Range(sent[i])})
        IN  IF d[p] + n > 2 THEN 2 ELSE d[p] + n]

NoSend == [to |-> Undefined, batch |-> <<>>, failAt |-> 0, logged |-> <<>>]
NoSync == [calls |-> 0, ids |-> {}, offered |-> {}, failed |-> {}]

\* One more command is run, while the horizon allows.
Ran == runs < MaxRuns /\ runs' = runs + 1

\* A command that throws rejects the promise of the command loop: the
\* process ends, and the next one is constructed with an empty cache.
Sync(items, outcomes) ==
    LET r == downloadFeedItems(EmptyCache, cacheFile, htmlFiles, items, outcomes)
    IN  /\ ~readCacheThrows(cacheFile)
        /\ Ran
        /\ htmlFiles' = r.html
        /\ cacheFile' = IF r.error = "none" THEN writeCache(r.cache) ELSE cacheFile
        /\ last' = [op |-> "sync", error |-> r.error, send |-> NoSend,
                    sync |-> [calls |-> r.calls, ids |-> Range(r.idsInFeed),
                             offered |-> Range(items), failed |-> r.failed]]
        /\ UNCHANGED <<feed, delivered, query, fetched, cli>>

\* Mutant: a feed that cannot be fetched is taken for an empty one.
SyncFeedErrorTombstones ==
    /\ ~readCacheThrows(cacheFile)
    /\ Ran
    /\ cacheFile' = writeCache(MarkDeleted(readCache(EmptyCache, cacheFile), <<>>))
    /\ last' = [op |-> "sync", error |-> "feed", send |-> NoSend, sync |-> NoSync]
    /\ UNCHANGED <<htmlFiles, feed, delivered, query, fetched, cli>>

\* rssParser.parseURL rejects: nothing but readCache has run.
SyncFeedError ==
    /\ ~readCacheThrows(cacheFile)
    /\ Ran
    /\ last' = [op |-> "sync", error |-> "feed", send |-> NoSend, sync |-> NoSync]
    /\ UNCHANGED <<cacheFile, htmlFiles, feed, delivered, query, fetched, cli>>

NoQuery == [fn |-> "none", to |-> Undefined, ids |-> <<>>]

\* FetchArticlesFromFeedOpts with every option left out.
NoOpts == [before |-> <<>>, after |-> <<>>, orderBy |-> Undefined, reverse |-> FALSE, max |-> <<>>]

\* A Content-Type header: the parts that follow the media type, each
\* `key=val`, held without the blanks trim() removes.
ContentTypes ==
    UNION {[1..n -> [key : {"charset", "Charset", "type"},
                     val : {"", "utf-8", "UTF-8", "latin1", "koi8-r"}]] : n \in 0..2}

\* The Content-Type of a feed served without parameters.
PlainContentType == <<>>

\* What the site answers for the page of a feed item: the page, a status
\* that is not OK, or a page parseArticle rejects.
PageAnswers == [Links -> {"ok", "notok", "parsefail"}]
AllPagesOk == [l \in Links |-> "ok"]

\* The options of the command line main reads, every one left out.
NoParams ==
    [to |-> Undefined, transport |-> Undefined, order |-> Undefined, mode |-> Undefined,
     max |-> Undefined]

\* No run of main yet.
NoCli ==
    [ran |-> FALSE, params |-> NoParams, urls |-> <<>>, mail |-> "ok", threw |-> FALSE,
     returned |-> 0, exit |-> 0, fetches |-> 0, books |-> <<>>, mailed |-> FALSE]

NoFetch ==
    [called |-> FALSE, contentType |-> PlainContentType, opts |-> NoOpts,
     pages |-> AllPagesOk, charset |-> Undefined, error |-> "none",
     items |-> <<>>, articles |-> <<>>]

Init ==
    /\ cacheFile = NoFile
    /\ feed = <<>>
    /\ runs = 0
    /\ htmlFiles = {}
    /\ last = [op |-> "boot", error |-> "none", send |-> NoSend, sync |-> NoSync]
    /\ delivered = [p \in Recipients \X Ids |-> 0]
    /\ query = NoQuery
    /\ fetched = NoFetch
    /\ cli = NoCli

\* The entries this run pushed on the log it read.
Logged(file, c) ==
    SubSeq(c.emails, Len(readCache(EmptyCache, file).emails) + 1, Len(c.emails))

\* Mutant: the cache is written however the command ended.
SentAlwaysWrites(op, to, r) ==
    /\ ~readCacheThrows(cacheFile)
    /\ Ran
    /\ cacheFile' = writeCache(r.cache)
    /\ delivered' = Deliver(delivered, to, r.sent)
    /\ last' = [op |-> op, error |-> r.error,
                send |-> [to |-> to, batch |-> r.batch, failAt |-> r.failAt,
                          logged |-> Logged(cacheFile, r.cache)],
                sync |-> NoSync]
    /\ UNCHANGED <<htmlFiles, feed, query, fetched, cli>>

\* The end of a send command: the cache is written when nothing threw.
Sent(op, to, r) ==
    /\ ~readCacheThrows(cacheFile)
    /\ Ran
    /\ cacheFile' = IF r.error = "none" THEN writeCache(r.cache) ELSE cacheFile
    /\ delivered' = Deliver(delivered, to, r.sent)
    /\ last' = [op |-> op, error |-> r.error,
                send |-> [to |-> to, batch |-> r.batch, failAt |-> r.failAt,
                          logged |-> Logged(cacheFile, r.cache)],
                sync |-> NoSync]
    /\ UNCHANGED <<htmlFiles, feed, query, fetched, cli>>

SendAllIndividual(to, fault) ==
    LET r == sendAllIndividual(EmptyCache, cacheFile, htmlFiles, to, fault)
    IN  /\ Len(readCache(EmptyCache, cacheFile).emails) + Len(r.batch) <= MaxEmails
        /\ Sent("individual", to, r)

SendAllAmalgamate(to, ids, fault) ==
    LET r == sendAllAmalgamate(EmptyCache, cacheFile, htmlFiles, to, ids, fault)
    IN  /\ Len(readCache(EmptyCache, cacheFile).emails) < MaxEmails
        /\ Sent("amalgamate", to, r)

\* if (!this._mail) throw: a send command under a config without mail.
SendNoMail(op) ==
    /\ Ran
    /\ last' = [op |-> op, error |-> "nomail", send |-> NoSend, sync |-> NoSync]
    /\ UNCHANGED <<cacheFile, htmlFiles, feed, delivered, query, fetched, cli>>

SyncStep ==
    \E items \in Feeds :
        \E outcomes \in OutcomesFor(readCache(EmptyCache, cacheFile), items) :
            Sync(items, outcomes)

IndividualStep ==
    \E to \in Recipients :
        \E fault \in Faults(Len(getUnsent(readCache(EmptyCache, cacheFile), to))) :
            SendAllIndividual(to, fault)

AmalgamateStep ==
    \E to \in Recipients :
        \E ids \in AmalgamateSelections(readCache(EmptyCache, cacheFile), to, MainAmalgamateOpts) :
            \E fault \in Faults(1) :
                SendAllAmalgamate(to, ids, fault)

NoMailStep == \E op \in {"individual", "amalgamate"} : SendNoMail(op)

Next == SyncStep \/ SyncFeedError \/ IndividualStep \/ AmalgamateStep \/ NoMailStep

Spec == Init /\ [][Next]_vars


\* ------------------------------------------------ syncs against one feed
\* The disk after one more sync of an empty-handed process.
AfterSync(d, items, outcomes) ==
    LET r == downloadFeedItems(EmptyCache, d.file, d.html, items, outcomes)
    IN  [file |-> IF r.error = "none" THEN writeCache(r.cache) ELSE d.file,
         html |-> r.html]

SyncsFrom(ds) ==
    {AfterSync(d, items, outcomes) :
        d \in ds, items \in Feeds, outcomes \in [1..MaxFeedLen -> ExtractResults]}

\* The disks two syncs can leave behind a fresh directory.
FreshDisk == [file |-> NoFile, html |-> {}]
StartDisks == SyncsFrom(SyncsFrom({FreshDisk}) \cup {FreshDisk})

InitSync ==
    /\ \E d \in StartDisks : cacheFile = d.file /\ htmlFiles = d.html
    /\ feed \in Feeds
    /\ runs = 0
    /\ last = [op |-> "boot", error |-> "none", send |-> NoSend, sync |-> NoSync]
    /\ delivered = [p \in Recipients \X Ids |-> 0]
    /\ query = NoQuery
    /\ fetched = NoFetch
    /\ cli = NoCli

ServedSyncStep ==
    \E outcomes \in OutcomesFor(readCache(EmptyCache, cacheFile), feed) :
        Sync(feed, outcomes)

NextSync == ServedSyncStep \/ SyncFeedError

SpecSync == InitSync /\ [][NextSync]_vars

\* ------------------------------------------------- queries on a send log
\* Any log the SendLogEntry type allows, FAILED attempts included.
\* An email lists each article once: a batch is drawn from distinct store keys.
ArticleLists ==
    {l \in UNION {[1..n -> Ids] : n \in 0..2} : \A i, j \in 1..Len(l) : l[i] = l[j] => i = j}
LogEntries == [sentTo : Recipients, articlesSent : ArticleLists, status : {"SUCCESS", "FAILED"}]
Logs == UNION {[1..n -> LogEntries] : n \in 0..MaxLogged}

InitQuery ==
    /\ \E log \in Logs : cacheFile = writeCache([emails |-> log, articles |-> <<>>])
    /\ htmlFiles = {}
    /\ feed = <<>>
    /\ runs = 0
    /\ last = [op |-> "boot", error |-> "none", send |-> NoSend, sync |-> NoSync]
    /\ delivered = [p \in Recipients \X Ids |-> 0]
    /\ query = NoQuery
    /\ fetched = NoFetch
    /\ cli = NoCli

QuerySent(to) ==
    /\ query' = [fn |-> "getSentArtcleIds", to |-> to,
                 ids |-> getSentArtcleIds(readCache(EmptyCache, cacheFile), to)]
    /\ UNCHANGED <<cacheFile, htmlFiles, feed, runs, last, delivered, fetched, cli>>

\* StateManager.getSentArtcles(to: string[] = []) of state.ts, over the same
\* log (its entry fields to and sentURLs are sentTo and articlesSent here):
\* _emailsSent.filter(SUCCESS).filter(e => to.includes(e.to)).flatMap(sentURLs)
getSentArtcles(emails, to) ==
    FlatMapArticlesSent(
        SelectSeq(SelectSeq(emails, LAMBDA e : e.status = "SUCCESS"),
                  LAMBDA e : e.sentTo \in Range(to)))

\* The caller passes no recipient (the default []) or one address.
QuerySentArtcles(to) ==
    /\ query' = [fn |-> "getSentArtcles",
                 to |-> IF to = <<>> THEN Undefined ELSE to[1],
                 ids |-> getSentArtcles(readCache(EmptyCache, cacheFile).emails, to)]
    /\ UNCHANGED <<cacheFile, htmlFiles, feed, runs, last, delivered, fetched, cli>>

NextQuery ==
    \/ \E to \in Recipients \cup {Undefined} : QuerySent(to)
    \/ \E to \in {<<>>} \cup {<<r>> : r \in Recipients} : QuerySentArtcles(to)

SpecQuery == InitQuery /\ [][NextQuery]_vars

\* ------------------------------------------------------------ properties
\* The store and log a run starts from: what readCache gives a new process.
Stored == readCache(EmptyCache, cacheFile)

Article(c, id) == _getArticleById(c, id)

\* The ids some SUCCESS entry addressed to `to` lists.
DeliveredPerLog(c, to) ==
    {id \in Ids : \E i \in 1..Len(c.emails) :
        /\ c.emails[i].status = "SUCCESS"
        /\ c.emails[i].sentTo = to
        /\ id \in Range(c.emails[i].articlesSent)}

\* C1: getSentArtcleIds(R) contains A exactly when some log entry has status
\* SUCCESS, sentTo = R and A among articlesSent; FAILED entries and entries
\* for another recipient never count.
C1_SentIffSuccessEntry ==
    query.to \in Recipients =>
        \A id \in Ids : id \in Range(query.ids) <=> id \in DeliveredPerLog(Stored, query.to)

\* C1 witness: a query for R left out an id that a FAILED entry for R and a
\* SUCCESS entry for someone else list, and returned another id.
C1_Witness ==
    /\ query.to \in Recipients
    /\ query.ids # <<>>
    /\ \E id \in Ids \ Range(query.ids) : \E i, j \in 1..Len(Stored.emails) :
        /\ Stored.emails[i].status = "FAILED"
        /\ Stored.emails[i].sentTo = query.to
        /\ id \in Range(Stored.emails[i].articlesSent)
        /\ Stored.emails[j].status = "SUCCESS"
        /\ Stored.emails[j].sentTo # query.to
        /\ id \in Range(Stored.emails[j].articlesSent)

UnsentIds(c, to) == Range(IdsOf(getUnsent(c, to)))

\* C2: getUnsent(R) returns exactly the ids whose record is not flagged
\* deleted and which are not in getSentArtcleIds(R).
C2_UnsentSkipsDeleted ==
    \A to \in Recipients :
        UnsentIds(Stored, to) =
            {id \in Keys(Stored) : ~Article(Stored, id).deleted}
                \ Range(getSentArtcleIds(Stored, to))

\* C3: whatever runs are made against the cache file, failed sends
\* included, the transport accepts an article for a recipient at most once.
C3_AtMostOnce == \A p \in DOMAIN delivered : delivered[p] <= 1

\* C4: when the send of one article fails in individual mode, a FAILED entry
\* is logged for it and every remaining unsent article is still attempted
\* and logged: the run logs one entry per unsent article.
C4_FailureLoggedAndLoopGoesOn ==
    (last.op = "individual" /\ last.error = "send") =>
        /\ Len(last.send.logged) = Len(last.send.batch)
        /\ last.send.logged[last.send.failAt].status = "FAILED"
        /\ last.send.logged[last.send.failAt].articlesSent = <<last.send.batch[last.send.failAt]>>

\* C5: after an individual run that failed at its k-th unsent article, the
\* cache file counts the articles before the k-th as sent to the recipient
\* and the k-th and later ones as unsent.
C5_PartialProgressPersisted ==
    (last.op = "individual" /\ last.error \in SendErrors) =>
        \A j \in 1..Len(last.send.batch) :
            last.send.batch[j] \in UnsentIds(Stored, last.send.to) <=> j >= last.send.failAt

SuccessEntry(to, ids) == [sentTo |-> to, articlesSent |-> ids, status |-> "SUCCESS"]

AmalgamateAllOrNothing ==
    (last'.op = "amalgamate" /\ last'.error # "nomail") =>
        LET s == last'.send
        IN  /\ s.batch \in AmalgamateSelections(Stored, s.to, MainAmalgamateOpts)
            /\ Range(s.batch) = UnsentIds(Stored, s.to)
            /\ IF last'.error = "none"
               THEN /\ s.logged = <<SuccessEntry(s.to, s.batch)>>
                    /\ Stored' = [Stored EXCEPT !.emails = Append(@, SuccessEntry(s.to, s.batch))]
                    /\ delivered' = Deliver(delivered, s.to, <<s.batch>>)
               ELSE /\ s.logged = <<>>
                    /\ cacheFile' = cacheFile
                    /\ delivered' = delivered
                    /\ AmalgamateSelections(Stored', s.to, MainAmalgamateOpts)
                         = AmalgamateSelections(Stored, s.to, MainAmalgamateOpts)

\* C6: sendAllAmalgamate is all-or-nothing: a successful send appends exactly
\* one SUCCESS entry listing the whole selected sequence in its order; a
\* failed EPUB build or send logs nothing, delivers nothing, leaves the cache
\* file as it was, and the next run selects the same batch.
C6_AmalgamateAllOrNothing == [][AmalgamateAllOrNothing]_vars

\* C6 witness: an amalgamated email of several articles went out on the
\* retry after a failed attempt had left the log empty.
C6_Witness ==
    /\ last.op = "amalgamate"
    /\ last.error = "none"
    /\ Len(last.send.batch) >= 2
    /\ runs = MaxRuns
    /\ Len(Stored.emails) = 1

\* The ids of the entries of the feed that carry a link.
FeedIds(items) == {ArticleId(items[k].link) : k \in {j \in 1..Len(items) : items[j].link # NoLink}}

AllCached(c, items) ==
    \A k \in 1..Len(items) :
        items[k].link # NoLink /\ _isArticleCached(c, ArticleId(items[k].link))

\* Two downloadFeedItems runs in a row that were both served the feed.
TwoSyncs == last.op = "sync" /\ last.error # "feed" /\ last'.op = "sync" /\ last'.error # "feed"

SecondSyncIdle == last'.sync.calls = 0 /\ Stored' = Stored

Tombstoned ==
    (last'.op = "sync" /\ last'.error # "feed") =>
        \A id \in Keys(Stored) :
            /\ id \in Keys(Stored')
            /\ id \notin FeedIds(feed) => Article(Stored', id).deleted
            /\ id \in FeedIds(feed) => Article(Stored', id).deleted = Article(Stored, id).deleted

\* C8: a sync that got the item list of the feed flags every stored record
\* whose id is absent from the list and keeps it in the store, and flags no
\* record whose id is in the list.
C8_AbsentIdsTombstoned == [][Tombstoned]_vars

StaysDeleted ==
    \A id \in Keys(Stored) :
        Article(Stored, id).deleted =>
            id \in Keys(Stored') /\ Article(Stored', id).deleted

\* C9: a record flagged deleted stays flagged through every later sync and
\* send, a sync whose feed lists its id again included.
C9_DeletedMonotonic == [][StaysDeleted]_vars

\* C9 witness: a completed sync whose feed listed the id of a record that
\* is flagged deleted.
C9_Witness ==
    /\ last.op = "sync"
    /\ last.error = "none"
    /\ \E id \in last.sync.ids \cap Keys(Stored) : Article(Stored, id).deleted

WriteOnce ==
    \A id \in Keys(Stored) :
        /\ id \in Keys(Stored')
        /\ Article(Stored', id).id = id
        /\ Article(Stored', id).feedItem = Article(Stored, id).feedItem
        /\ Article(Stored', id).readabilityMeta = Article(Stored, id).readabilityMeta

\* C10: no sync or send removes a key of the store or changes the feedItem
\* or readabilityMeta of an existing record.
C10_WriteOnce == [][WriteOnce]_vars

\* C10 witness: a completed sync was offered the revised item of a link whose
\* record holds the first title, after an email had been logged.
C10_Witness ==
    /\ last.op = "sync"
    /\ last.error = "none"
    /\ Stored.emails # <<>>
    /\ \E item \in last.sync.offered :
        /\ item.link \in Revised
        /\ item.title = "t2"
        /\ _isArticleCached(Stored, ArticleId(item.link))
        /\ Article(Stored, ArticleId(item.link)).feedItem.title = "t1"

IsPrefix(s, t) == Len(s) <= Len(t) /\ SubSeq(t, 1, Len(s)) = s

\* C11: the email log a command starts from is a prefix of the log it leaves:
\* no sync and no send changes, reorders or drops an entry.
C11_LogAppendOnly == [][IsPrefix(Stored.emails, Stored'.emails)]_vars

\* C11 witness: a send appended to a log that already held an entry.
C11_Witness ==
    /\ last.op \in {"individual", "amalgamate"}
    /\ last.error = "none"
    /\ last.send.logged # <<>>
    /\ Len(last.send.logged) < Len(Stored.emails)

\* ------------------------------------------- selection of fetched items
\* A FeedParser.Item as fetchArticlesFromFeed reads it: date is a Date or null.
ItemDates == {<<d>> : d \in 1..MaxDate} \cup {NoDate}
ParsedItems == [title : {"t1"}, link : Links, date : ItemDates]

ParsedFeeds ==
    {f \in UNION {[1..n -> ParsedItems] : n \in 0..MaxFeedLen} :
        \A i, j \in 1..Len(f) : f[i].link = f[j].link => i = j}

\* before/after are Dates or left out, max is a parsed integer or left out.
FetchOpts ==
    [before : ItemDates, after : ItemDates, orderBy : {Undefined, "date"},
     reverse : BOOLEAN, max : {<<k>> : k \in -1..MaxPick} \cup {<<>>}]

HasDate(x) == x.date # NoDate

\* Mutant: an item dated at the bound passes.
IsBeforeOrAt(x, bound) == x.date[1] <= bound[1]

\* x.date < opts.before
IsBefore(x, bound) == x.date[1] < bound[1]

\* x.date > opts.after
IsAfter(x, bound) == x.date[1] > bound[1]

\* feedItems.sort((a, b) => a.date.getTime() - b.date.getTime()): a stable
\* sort under a consistent comparator, every item left having a date.
RECURSIVE InsertByDate(_, _)
InsertByDate(sorted, x) ==
    IF sorted = <<>> THEN <<x>>
    ELSE IF sorted[Len(sorted)].date[1] - x.date[1] <= 0 THEN Append(sorted, x)
    ELSE Append(InsertByDate(SubSeq(sorted, 1, Len(sorted) - 1), x), sorted[Len(sorted)])

RECURSIVE SortByDate(_)
SortByDate(items) ==
    IF items = <<>> THEN <<>>
    ELSE InsertByDate(SortByDate(SubSeq(items, 1, Len(items) - 1)), items[Len(items)])

Min(a, b) == IF a < b THEN a ELSE b

\* Array.prototype.slice(0, end): a negative end counts from the back.
SliceTo(seq, end) ==
    LET e == IF end < 0 THEN (IF Len(seq) + end < 0 THEN 0 ELSE Len(seq) + end)
             ELSE Min(end, Len(seq))
    IN  SubSeq(seq, 1, e)

\* Mutant: the list is cropped before it is reversed.
SelectFeedItemsCropFirst(items, opts) ==
    LET timed  == opts.before # <<>> \/ opts.after # <<>> \/ opts.orderBy = "date"
        dated  == IF timed THEN SelectSeq(items, HasDate) ELSE items
        early  == IF opts.before # <<>>
                  THEN SelectSeq(dated, LAMBDA x : IsBefore(x, opts.before)) ELSE dated
        late   == IF opts.after # <<>>
                  THEN SelectSeq(early, LAMBDA x : IsAfter(x, opts.after)) ELSE early
        sorted == IF opts.orderBy = "date" THEN SortByDate(late) ELSE late
        crop   == IF opts.max # <<>>
                  THEN SliceTo(sorted, Min(opts.max[1], Len(sorted))) ELSE sorted
    IN  IF opts.reverse THEN Reverse(crop) ELSE crop

\* The items fetchArticlesFromFeed goes on to fetch: undated items dropped
\* when a time option is set, before, after, sort, reverse, slice to max.
SelectFeedItems(items, opts) ==
    LET timed  == opts.before # <<>> \/ opts.after # <<>> \/ opts.orderBy = "date"
        dated  == IF timed THEN SelectSeq(items, HasDate) ELSE items
        early  == IF opts.before # <<>>
                  THEN SelectSeq(dated, LAMBDA x : IsBefore(x, opts.before)) ELSE dated
        late   == IF opts.after # <<>>
                  THEN SelectSeq(early, LAMBDA x : IsAfter(x, opts.after)) ELSE early
        sorted == IF opts.orderBy = "date" THEN SortByDate(late) ELSE late
        turned == IF opts.reverse THEN Reverse(sorted) ELSE sorted
    IN  IF opts.max # <<>>
        THEN SliceTo(turned, Min(opts.max[1], Len(turned))) ELSE turned

InitFetch ==
    /\ feed \in ParsedFeeds
    /\ cacheFile = NoFile
    /\ htmlFiles = {}
    /\ runs = 0
    /\ last = [op |-> "boot", error |-> "none", send |-> NoSend, sync |-> NoSync]
    /\ delivered = [p \in Recipients \X Ids |-> 0]
    /\ query = NoQuery
    /\ fetched = NoFetch
    /\ cli = NoCli

\* String.prototype.toLowerCase on the strings of a Content-Type.
toLowerCase(str) ==
    CASE str = "Charset" -> "charset"
      [] str = "UTF-8" -> "utf-8"
      [] OTHER -> str

ALLOWED_CHARSET == {"ascii", "utf8", "utf-8", "utf16le", "ucs2", "ucs-2", "base64", "latin1"}

isCharsetBufferEncoding(charset) == charset \in ALLOWED_CHARSET

\* split(";").filter(x => lower(x) starts with "charset=").map(value)?.[0]
CharsetParam(contentType) ==
    LET named == SelectSeq(contentType, LAMBDA x : toLowerCase(x.key) = "charset")
    IN  IF named = <<>> THEN Undefined ELSE named[1].val

\* if (charset) ... else charset = "utf-8"
CharsetOrFallback(contentType) ==
    IF Falsy(CharsetParam(contentType)) THEN "utf-8" ELSE CharsetParam(contentType)

\* The for loop over the selected items: a fetch that is not OK throws, and
\* so does parseArticle; an article is named by the link it was read from.
RECURSIVE FetchLoop(_, _, _)
FetchLoop(items, pages, articles) ==
    IF items = <<>> THEN [error |-> "none", articles |-> articles]
    ELSE IF pages[Head(items).link] = "notok" THEN [error |-> "fetch", articles |-> <<>>]
    ELSE IF pages[Head(items).link] = "parsefail" THEN [error |-> "parse", articles |-> <<>>]
    ELSE FetchLoop(Tail(items), pages, Append(articles, Head(items).link))

\* fetchArticlesFromFeed on a feed that parses into `items`: the charset it
\* decoded with, the items it selected, and the articles it returned or the
\* error it threw.
fetchArticlesFromFeed(items, contentType, opts, pages) ==
    LET charset  == CharsetOrFallback(contentType)
        selected == SelectFeedItems(items, opts)
        r        == FetchLoop(selected, pages, <<>>)
    IN  IF ~isCharsetBufferEncoding(charset)
        THEN [charset |-> charset, error |-> "charset", items |-> <<>>, articles |-> <<>>]
        ELSE [charset |-> charset, error |-> r.error, items |-> selected,
              articles |-> r.articles]

FetchArticlesFromFeed(contentType, opts, pages) ==
    LET r == fetchArticlesFromFeed(feed, contentType, opts, pages)
    IN  /\ ~fetched.called
        /\ fetched' = [called |-> TRUE, contentType |-> contentType, opts |-> opts,
                       pages |-> pages, charset |-> r.charset, error |-> r.error,
                       items |-> r.items, articles |-> r.articles]
        /\ UNCHANGED <<cacheFile, htmlFiles, feed, runs, last, delivered, query, cli>>

\* A feed served without charset whose pages all answer, under any options.
NextFetch == \E opts \in FetchOpts : FetchArticlesFromFeed(PlainContentType, opts, AllPagesOk)

SpecFetch == InitFetch /\ [][NextFetch]_vars

\* The items of the feed that pass the date filters of the call.
Pool ==
    {x \in Range(feed) :
        /\ x.date # NoDate
        /\ fetched.opts.before # <<>> => x.date[1] < fetched.opts.before[1]
        /\ fetched.opts.after # <<>> => x.date[1] > fetched.opts.after[1]}

\* C12: with orderBy = date, reverse = true and max = k (k >= 0) the result
\* is the k most recent items that pass the filters, latest first: the list
\* is cropped after it is sorted and reversed.
C12_MostRecentFirst ==
    (/\ fetched.called
     /\ fetched.opts.orderBy = "date"
     /\ fetched.opts.reverse
     /\ fetched.opts.max # <<>>
     /\ fetched.opts.max[1] >= 0) =>
        LET r == fetched.items
        IN  /\ Len(r) = Min(fetched.opts.max[1], Cardinality(Pool))
            /\ Range(r) \subseteq Pool
            /\ \A i, j \in 1..Len(r) : i < j => r[i].date[1] >= r[j].date[1]
            /\ \A x \in Pool \ Range(r) : \A y \in Range(r) : x.date[1] <= y.date[1]

\* C12 witness: items A, B, C dated 1, 2, 3 in feed order, orderBy = date,
\* reverse = true, max = 2: the result is [C, B].
C12_Witness ==
    /\ fetched.called
    /\ fetched.opts = [NoOpts EXCEPT !.orderBy = "date", !.reverse = TRUE, !.max = <<2>>]
    /\ Len(feed) = 3
    /\ \A i \in 1..3 : feed[i].date = <<i>>
    /\ fetched.items = <<feed[3], feed[2]>>

\* C13: when before or after is set, the selected items are among the dated
\* items strictly earlier than before and strictly later than after, and
\* they are all of them when max is left out.
C13_StrictDateBounds ==
    (fetched.called /\ (fetched.opts.before # <<>> \/ fetched.opts.after # <<>>)) =>
        /\ Range(fetched.items) \subseteq Pool
        /\ fetched.opts.max = <<>> => Range(fetched.items) = Pool

\* C13 witness: with before = 3 and after = 1, of an undated item, an item
\* dated 3 and an item dated 2 only the last is selected.
C13_Witness ==
    /\ fetched.called
    /\ fetched.opts = [NoOpts EXCEPT !.before = <<3>>, !.after = <<1>>]
    /\ \E i, j, k \in 1..Len(feed) :
        /\ feed[i].date = NoDate
        /\ feed[j].date = <<3>>
        /\ feed[k].date = <<2>>
        /\ fetched.items = <<feed[k]>>

\* ------------------------------------------------ an unreadable cache file
\* readCache throws out of the command before anything else has run.
ReadCacheError(op) ==
    /\ readCacheThrows(cacheFile)
    /\ Ran
    /\ last' = [op |-> op, error |-> "read", send |-> NoSend, sync |-> NoSync]
    /\ UNCHANGED <<cacheFile, htmlFiles, feed, delivered, query, fetched, cli>>

ReadErrorStep == \E op \in {"sync", "individual", "amalgamate"} : ReadCacheError(op)

\* The directory holds no cache file, or one that cannot be read.
InitRead ==
    /\ cacheFile \in {NoFile, GarbageFile}
    /\ feed = <<>>
    /\ runs = 0
    /\ htmlFiles = {}
    /\ last = [op |-> "boot", error |-> "none", send |-> NoSend, sync |-> NoSync]
    /\ delivered = [p \in Recipients \X Ids |-> 0]
    /\ query = NoQuery
    /\ fetched = NoFetch
    /\ cli = NoCli

NextRead == Next \/ ReadErrorStep

SpecRead == InitRead /\ [][NextRead]_vars

ReadOutcome ==
    (last'.op \in {"sync", "individual", "amalgamate"} /\ last'.error # "nomail") =>
        /\ last'.error = "read" <=> (cacheFile.exists /\ ~cacheFile.parses)
        /\ last'.error = "read" =>
            cacheFile' = cacheFile /\ htmlFiles' = htmlFiles /\ delivered' = delivered
        /\ ~cacheFile.exists =>
            /\ last'.op # "sync" => last'.send.batch = <<>>
            /\ (last'.op = "sync" /\ last'.error = "none") =>
                /\ Keys(Stored') \subseteq last'.sync.ids
                /\ Stored'.emails = <<>>

\* C14: a command run without a cache file starts from an empty store and
\* empty log and meets no read error; a cache file that cannot be read or
\* parsed makes the command fail before it writes the cache file, a body
\* file or sends an email.
C14_ReadCacheErrors == [][ReadOutcome]_vars

\* C14 witness: a command was run on an unreadable cache file, which is
\* still there.
C14_Witness ==
    /\ last.error = "read"
    /\ cacheFile = GarbageFile
    /\ runs >= 2

\* --------------------------------------------------- missing body files
\* A directory a sync has filled, some <id>.html files removed since.
InitEpub ==
    /\ \E d \in SyncsFrom({FreshDisk}) : \E lost \in SUBSET d.html :
        cacheFile = d.file /\ htmlFiles = d.html \ lost
    /\ feed = <<>>
    /\ runs = 0
    /\ last = [op |-> "boot", error |-> "none", send |-> NoSend, sync |-> NoSync]
    /\ delivered = [p \in Recipients \X Ids |-> 0]
    /\ query = NoQuery
    /\ fetched = NoFetch
    /\ cli = NoCli

\* makeEpub called on a list of ids, known to the store or not.
MakeEpub(articleIds) ==
    /\ Ran
    /\ last' = [op |-> "epub", error |-> makeEpub(Stored, htmlFiles, articleIds),
                send |-> [NoSend EXCEPT !.batch = articleIds], sync |-> NoSync]
    /\ UNCHANGED <<cacheFile, htmlFiles, feed, delivered, query, fetched, cli>>

MakeEpubStep == \E articleIds \in ArticleLists : MakeEpub(articleIds)

NextEpub == IndividualStep \/ AmalgamateStep \/ MakeEpubStep

SpecEpub == InitEpub /\ [][NextEpub]_vars

\* The first id of the list that makeEpub cannot gather, 0 if there is none.
FirstBad(c, html, ids) ==
    LET bad == {k \in 1..Len(ids) : ids[k] \notin Keys(c) \/ ids[k] \notin html}
    IN  IF bad = {} THEN 0 ELSE CHOOSE k \in bad : \A j \in bad : k <= j

EpubOutcome ==
    /\ last'.op = "epub" =>
        LET ids == last'.send.batch
            k   == FirstBad(Stored, htmlFiles, ids)
        IN  /\ last'.error = "none" <=> k = 0
            /\ last'.error = "noarticle" <=> (k # 0 /\ ids[k] \notin Keys(Stored))
            /\ last'.error = "badcache" <=> (k # 0 /\ ids[k] \in Keys(Stored))
    /\ last'.op \in {"individual", "amalgamate"} =>
        LET s       == last'.send
            missing == Range(s.batch) \ htmlFiles
        IN  missing # {} =>
                /\ last'.error \in {"badcache"} \cup SendErrors
                /\ cacheFile' = cacheFile
                /\ \A id \in missing :
                    /\ delivered'[<<s.to, id>>] = delivered[<<s.to, id>>]
                    /\ \A i \in 1..Len(s.logged) : id \notin Range(s.logged[i].articlesSent)
                /\ last'.op = "amalgamate" => (delivered' = delivered /\ s.logged = <<>>)

\* C15: makeEpub answers an id that has a record and no <id>.html with the
\* bad-cache error, an id without a record with another error; a send whose
\* batch holds such an article is aborted: the cache file is not written, no
\* email with the article goes out, no entry lists it.
C15_BadCacheAbortsSend == [][EpubOutcome]_vars

\* C15 witness: an amalgamated send of several articles stopped on the
\* bad-cache error.
C15_Witness ==
    /\ last.op = "amalgamate"
    /\ last.error = "badcache"
    /\ Len(last.send.batch) >= 2
    /\ Range(last.send.batch) \cap htmlFiles # {}

LinklessSkipped ==
    (last'.op = "sync" /\ last'.error # "feed") =>
        /\ last'.error = "none"
        /\ cacheFile'.exists
        /\ last'.sync.ids = FeedIds(feed)
        /\ \A id \in Keys(Stored') \ FeedIds(feed) : Article(Stored', id).deleted

\* C16: a sync that is served a feed with an entry without a link raises no
\* error: every entry with a link is still looked at, the tombstone pass
\* runs and the cache file is written.
C16_LinklessEntrySkipped == [][LinklessSkipped]_vars

ExtractorFailureLocal ==
    /\ (last'.op = "sync" /\ last'.error # "feed" /\ last'.sync.failed # {}) =>
        /\ last'.error = "none"
        /\ cacheFile'.exists
        /\ last'.sync.ids = FeedIds(feed)
        /\ \A id \in last'.sync.failed : id \notin Keys(Stored')
        /\ \A id \in FeedIds(feed) \ last'.sync.failed : id \in Keys(Stored')
    /\ (last.op = "sync" /\ last'.op = "sync" /\ last'.error # "feed") =>
        last'.sync.calls >= Cardinality(last.sync.failed)

\* C17: when the extractor fails for an entry, the sync leaves no record for
\* its id, still looks at every other entry of the feed, completes and writes
\* the cache file, and the next sync calls the extractor for the entry again.
C17_ExtractorFailureSkipsOneEntry == [][ExtractorFailureLocal]_vars

\* ------------------------------------------------- links with fragments
Fragments == {"", "f1", "f2"}
HashedLinks == [base : Urls, hash : Fragments]
HashedItems == [title : Titles, link : HashedLinks, pubDate : {NoDate}]
HashedFeeds == UNION {[1..n -> HashedItems] : n \in 1..MaxHashedLen}

InitId ==
    /\ feed \in HashedFeeds
    /\ cacheFile = NoFile
    /\ htmlFiles = {}
    /\ runs = 0
    /\ last = [op |-> "boot", error |-> "none", send |-> NoSend, sync |-> NoSync]
    /\ delivered = [p \in Recipients \X Ids |-> 0]
    /\ query = NoQuery
    /\ fetched = NoFetch
    /\ cli = NoCli

SpecId == InitId /\ [][ServedSyncStep]_vars

\* The md5 of each link of the feed without its fragment.
NormalizedIds == {md5(<<feed[k].link.base>>) : k \in 1..Len(feed)}

C19_FeedErrorAbortsSync ==
    [][(last'.op = "sync" /\ last'.error = "feed") =>
        (cacheFile' = cacheFile /\ htmlFiles' = htmlFiles /\ delivered' = delivered)]_vars

\* C19 witness: the feed failed over a store with a record that is not
\* flagged deleted.
C19_Witness ==
    /\ last.op = "sync"
    /\ last.error = "feed"
    /\ \E id \in Keys(Stored) : ~Article(Stored, id).deleted

FailedSend == last'.op \in {"individual", "amalgamate"} /\ last'.error \notin {"none", "nomail"}

\* C20: a send run that throws before its writeCache leaves the cache file
\* as it read it, entries logged in memory included in nothing: the next
\* run computes for the recipient the unsent list the failed run computed.
C20_SameUnsentAfterCrash ==
    [][FailedSend =>
        /\ cacheFile' = cacheFile
        /\ getUnsent(Stored', last'.send.to) = getUnsent(Stored, last'.send.to)
        /\ Range(last'.send.batch) = UnsentIds(Stored', last'.send.to)]_vars

\* C20 witness: an individual run stopped after it had sent and logged at
\* least one email.
C20_Witness ==
    /\ last.op = "individual"
    /\ last.error \in SendErrors
    /\ last.send.failAt >= 2
    /\ last.send.logged # <<>>
    /\ last.send.batch[1] \in UnsentIds(Stored, last.send.to)

\* The ids the SUCCESS entries of the log list for `to`, or for anyone when
\* no recipient is given.
SuccessIds(c, to) ==
    {id \in Ids : \E i \in 1..Len(c.emails) :
        /\ c.emails[i].status = "SUCCESS"
        /\ to = Undefined \/ c.emails[i].sentTo = to
        /\ id \in Range(c.emails[i].articlesSent)}

\* C23: a sent-articles query without a recipient returns the articles of
\* all SUCCESS entries, whoever they were sent to; with a recipient it
\* returns those of the SUCCESS entries addressed to that recipient.
C23_QueryAllOrOneRecipient ==
    query.fn # "none" => Range(query.ids) = SuccessIds(Stored, query.to)

\* C25: whatever syncs and sends were run, syncs with failed extractions
\* and syncs left partway included, every record of the persisted store has
\* its <id>.html body on disk.
C25_RecordHasBody == Keys(Stored) \subseteq htmlFiles

\* C25 witness: a sync left partway over a store with records wrote a body
\* whose record was never persisted.
C25_Witness ==
    /\ last.op = "sync"
    /\ last.error = "url"
    /\ Keys(Stored) # {}
    /\ htmlFiles \ Keys(Stored) # {}

\* C27: sendAllAmalgamate with nothing unsent for the recipient sends no
\* email and logs nothing; no log entry has an empty articlesSent.
C27_NoEmptyAmalgamate ==
    /\ (last.op = "amalgamate" /\ last.send.batch = <<>>) => last.send.logged = <<>>
    /\ \A i \in 1..Len(Stored.emails) : Stored.emails[i].articlesSent # <<>>

\* C28: after any syncs and sends from the empty store, every article id a
\* log entry lists is a key of the article store.
C28_LoggedIdsAreKeys ==
    \A i \in 1..Len(Stored.emails) : Range(Stored.emails[i].articlesSent) \subseteq Keys(Stored)

\* C28 witness: the log lists, in two entries, articles of which one has
\* since left the feed and is flagged deleted.
C28_Witness ==
    /\ Len(Stored.emails) >= 2
    /\ \E i \in 1..Len(Stored.emails) : \E id \in Range(Stored.emails[i].articlesSent) :
        /\ id \in Keys(Stored)
        /\ Article(Stored, id).deleted

\* ------------------------------- the FeedMailer that fetches at send time
\* The later FeedMailer keeps no body file: its sync stores the feed item
\* alone and its makeEpub fetches every article again.

\* What the site answers for the page of an article when makeEpub asks:
\* the page, a status that is not OK, or a page parseArticle rejects.
Served == [Ids -> {"ok", "notok", "parsefail"}]

\* An answer is asked only for the pages of the articles still unsent.
ServedFor(c, to) ==
    {s \in Served : \A id \in Ids \ Range(IdsOf(getUnsent(c, to))) : s[id] = "ok"}

NewArticle2(id, item) ==
    [id |-> id, deleted |-> FALSE,
     feedItem |-> [title |-> item.title, link |-> item.link, pubDate |-> item.pubDate]]

\* The for loop of the later downloadFeedItems from item k on.
RECURSIVE SyncLoop2(_, _, _)
SyncLoop2(st, items, k) ==
    IF k > Len(items) THEN st
    ELSE IF items[k].link = NoLink THEN [st EXCEPT !.error = "url"]
    ELSE
        LET id   == ArticleId(items[k].link)
            seen == Seen(st, id)
        IN  IF IsCached(st.cache, id) THEN SyncLoop2(seen, items, k + 1)
            ELSE SyncLoop2(
                    [seen EXCEPT !.cache.articles = PutArticle(@, NewArticle2(id, items[k]))],
                    items, k + 1)

downloadFeedItems2(c, file, items) ==
    LET st == SyncLoop2([cache |-> readCache(c, file), idsInFeed |-> <<>>, error |-> "none"],
                        items, 1)
    IN  IF st.error = "none"
        THEN [st EXCEPT !.cache = MarkDeleted(@, st.idsInFeed)]
        ELSE st

\* makeEpub: an id without an entry throws, a page that is not OK is passed
\* over (continue), a page that does not parse throws, and any other page
\* becomes a chapter. The result is the error and the chapters gathered.
RECURSIVE makeEpub2(_, _, _, _)
makeEpub2(c, served, articleIds, chapters) ==
    IF articleIds = <<>> THEN [error |-> "none", chapters |-> chapters]
    ELSE
        LET id == Head(articleIds)
        IN  IF ~_isArticleCached(c, id) THEN [error |-> "noarticle", chapters |-> chapters]
            ELSE IF served[id] = "notok" THEN makeEpub2(c, served, Tail(articleIds), chapters)
            ELSE IF served[id] = "parsefail" THEN [error |-> "parse", chapters |-> chapters]
            ELSE makeEpub2(c, served, Tail(articleIds), Append(chapters, id))

\* The for loop of sendAllIndividual from the k-th unsent id on.
\* st.mails: for each email sent, the ids logged for it and its chapters.
RECURSIVE IndividualLoop2(_, _, _, _, _, _)
IndividualLoop2(st, to, ids, served, fault, k) ==
    IF k > Len(ids) THEN st
    ELSE
        LET epub == makeEpub2(st.cache, served, <<ids[k]>>, <<>>)
        IN  IF epub.error # "none" THEN [st EXCEPT !.error = epub.error, !.failAt = k]
            ELSE IF fault.failAt = k THEN [st EXCEPT !.error = fault.error, !.failAt = k]
            ELSE IndividualLoop2(
                    [st EXCEPT !.cache = _logSend(@, to, <<ids[k]>>, "SUCCESS"),
                               !.mails = Append(@, [ids |-> <<ids[k]>>,
                                                    chapters |-> epub.chapters])],
                    to, ids, served, fault, k + 1)

sendAllIndividual2(c, file, to, served, fault) ==
    LET c0  == readCache(c, file)
        ids == IdsOf(getUnsent(c0, to))
    IN  IndividualLoop2([cache |-> c0, error |-> "none", failAt |-> 0, mails |-> <<>>,
                         batch |-> ids],
                        to, ids, served, fault, 1)

\* opts of the later sendAllAmalgamate; if (opts.max) slice(0, opts.max).
AmalgamateOpts2 == [cronological : {FALSE}, reversed : BOOLEAN, max : {<<>>, <<1>>}]

Crop(ids, max) == IF max = <<>> \/ max[1] = 0 THEN ids ELSE SubSeq(ids, 1, Min(max[1], Len(ids)))

sendAllAmalgamate2(c, file, to, opts, served, fault) ==
    LET c0     == readCache(c, file)
        unsent == IdsOf(getUnsent(c0, to))
        ids    == Crop(IF opts.reversed THEN Reverse(unsent) ELSE unsent, opts.max)
        st     == [cache |-> c0, error |-> "none", failAt |-> 0, mails |-> <<>>,
                   batch |-> ids]
        epub   == makeEpub2(c0, served, ids, <<>>)
    IN  IF epub.error # "none" THEN [st EXCEPT !.error = epub.error, !.failAt = 1]
        ELSE IF fault.failAt = 1 THEN [st EXCEPT !.error = fault.error, !.failAt = 1]
        ELSE [st EXCEPT !.cache = _logSend(@, to, ids, "SUCCESS"),
                        !.mails = <<[ids |-> ids, chapters |-> epub.chapters]>>]

Ran2 == runs < MaxRuns2 /\ runs' = runs + 1

Sync2(items) ==
    LET r == downloadFeedItems2(EmptyCache, cacheFile, items)
    IN  /\ ~readCacheThrows(cacheFile)
        /\ Ran2
        /\ cacheFile' = IF r.error = "none" THEN writeCache(r.cache) ELSE cacheFile
        /\ last' = [op |-> "sync", error |-> r.error, send |-> NoSend,
                    sync |-> [calls |-> 0, ids |-> Range(r.idsInFeed),
                             offered |-> Range(items), failed |-> {}]]
        /\ UNCHANGED <<htmlFiles, feed, delivered, query, fetched, cli>>

\* The end of a send command: last.send.mails holds the emails it sent.
Sent2(op, to, r) ==
    /\ ~readCacheThrows(cacheFile)
    /\ Ran2
    /\ cacheFile' = IF r.error = "none" THEN writeCache(r.cache) ELSE cacheFile
    /\ delivered' = Deliver(delivered, to, [i \in 1..Len(r.mails) |-> r.mails[i].chapters])
    /\ last' = [op |-> op, error |-> r.error,
                send |-> [to |-> to, batch |-> r.batch, failAt |-> r.failAt,
                          logged |-> Logged(cacheFile, r.cache), mails |-> r.mails],
                sync |-> NoSync]
    /\ UNCHANGED <<htmlFiles, feed, query, fetched, cli>>

SendAllIndividual2(to, served, fault) ==
    LET r == sendAllIndividual2(EmptyCache, cacheFile, to, served, fault)
    IN  /\ Len(readCache(EmptyCache, cacheFile).emails) + Len(r.batch) <= MaxEmails
        /\ Sent2("individual", to, r)

SendAllAmalgamate2(to, opts, served, fault) ==
    LET r == sendAllAmalgamate2(EmptyCache, cacheFile, to, opts, served, fault)
    IN  /\ Len(readCache(EmptyCache, cacheFile).emails) < MaxEmails
        /\ Sent2("amalgamate", to, r)

SyncStep2 == \E items \in Feeds : Sync2(items)

IndividualStep2 ==
    \E to \in Recipients : \E served \in ServedFor(readCache(EmptyCache, cacheFile), to) :
        \E fault \in Faults(Len(getUnsent(readCache(EmptyCache, cacheFile), to))) :
            SendAllIndividual2(to, served, fault)

AmalgamateStep2 ==
    \E to \in Recipients : \E opts \in AmalgamateOpts2 :
      \E served \in ServedFor(readCache(EmptyCache, cacheFile), to) :
        \E fault \in Faults(1) :
            SendAllAmalgamate2(to, opts, served, fault)

Next2 == SyncStep2 \/ IndividualStep2 \/ AmalgamateStep2

Spec2 == Init /\ [][Next2]_vars

\* C26: every id a SUCCESS entry lists was a chapter of the EPUB attached to
\* the email the entry records; an article whose page could not be fetched
\* while the EPUB was built is not recorded as sent.
C26_LoggedIdsWereChapters ==
    (last.op \in {"individual", "amalgamate"} /\ last.error # "nomail") =>
        /\ Len(last.send.logged) = Len(last.send.mails)
        /\ \A i \in 1..Len(last.send.logged) :
            last.send.logged[i].status = "SUCCESS" =>
                Range(last.send.logged[i].articlesSent) \subseteq Range(last.send.mails[i].chapters)

\* ------------------------------------------------ pages that do not answer
\* Only the pages of the items of the feed are asked for.
PageAnswersFor(items) ==
    {pages \in PageAnswers : \A l \in Links :
        (\A k \in 1..Len(items) : items[k].link # l) => pages[l] = "ok"}

NextPages ==
    \E opts \in {NoOpts, [NoOpts EXCEPT !.orderBy = "date"], [NoOpts EXCEPT !.max = <<2>>]} :
      \E pages \in PageAnswersFor(feed) :
        FetchArticlesFromFeed(PlainContentType, opts, pages)

SpecPages == InitFetch /\ [][NextPages]_vars

\* The links of the selected items whose page answers and parses.
Answering == {fetched.items[k].link : k \in {j \in 1..Len(fetched.items) :
                                              fetched.pages[fetched.items[j].link] = "ok"}}

\* C24: a fetch that is not OK or a page that does not parse, for one item,
\* does not abort fetchArticlesFromFeed: the other selected items are still
\* fetched and returned.
C24_ItemFailureSkipsOneItem ==
    fetched.called =>
        /\ fetched.error = "none"
        /\ Range(fetched.articles) = Answering

\* --------------------------------------------------- charset of the feed
\* Feeds of at most one item, served under any Content-Type.
InitCharset == InitFetch /\ Len(feed) <= 1

NextCharset == \E contentType \in ContentTypes : FetchArticlesFromFeed(contentType, NoOpts, AllPagesOk)

SpecCharset == InitCharset /\ [][NextCharset]_vars

\* The first charset the Content-Type names, whatever the case of the key.
NamedCharset ==
    LET ct == fetched.contentType
        at == {k \in 1..Len(ct) : ct[k].key \in {"charset", "Charset"}}
    IN  IF at = {} THEN "" ELSE ct[CHOOSE k \in at : \A j \in at : k <= j].val

\* The encoding a charset names, letter case aside.
Encoding(name) == IF name = "UTF-8" THEN "utf-8" ELSE name

\* C30: the feed is decoded with the charset the Content-Type names, utf-8
\* when it names none; only a charset outside the allowed list is rejected,
\* and an allowed one is accepted whatever its letter case.
C30_CharsetOfContentType ==
    fetched.called =>
        IF NamedCharset = ""
        THEN fetched.error = "none" /\ fetched.charset = "utf-8"
        ELSE /\ fetched.error = "charset" <=> Encoding(NamedCharset) \notin ALLOWED_CHARSET
             /\ fetched.error = "none" => fetched.charset = Encoding(NamedCharset)

\* ------------------------------------------------------ the command line
\* main of the later revision: it checks the mail and order options, fetches
\* every URL of the command line, builds one EPUB, writes it to --out and,
\* when --to is given, mails it. parseArgs hands every option over as a
\* string or leaves it undefined.
Params ==
    [to : {Undefined, "", "r1"}, transport : {Undefined, "smtp"},
     order : {Undefined, "", "date", "title"}, mode : {Undefined, "individual", "bundle"},
     max : {Undefined, "1"}]

\* What a URL of the command line answers: an HTML page, a feed, a status
\* that is not OK, or a page parseArticle rejects.
UrlLists == UNION {[1..n -> {"page", "feed", "notok", "parsefail"}] : n \in 0..2}

\* The feed a feed URL serves, and the article an HTML page is.
ServedFeed ==
    <<[title |-> "t1", link |-> [base |-> "u1", hash |-> ""], date |-> <<2>>],
      [title |-> "t1", link |-> [base |-> "u2", hash |-> ""], date |-> <<1>>]>>
PageArticle == [base |-> "u3", hash |-> ""]

\* Mutant: any --order value is taken.
isFeedOrderAny(order) == TRUE

\* isFeedOrder: ["date"].includes(order)
isFeedOrder(order) == order \in {"date"}

\* Number.parseInt(parameters.max, 10)
parseInt(str) == IF str = "1" THEN 1 ELSE 0

\* feedOpts as main fills it from the options it was given.
FeedOptsOf(params) ==
    [NoOpts EXCEPT
        !.orderBy = IF Falsy(params.order) THEN Undefined ELSE params.order,
        !.max = IF Falsy(params.max) THEN <<>> ELSE <<parseInt(params.max)>>]

\* fetchArticlesFromURL: the articles of one URL, or the error it throws.
fetchArticlesFromURL(answer, feedOpts) ==
    CASE answer = "notok" -> [error |-> "fetch", articles |-> <<>>]
      [] answer = "parsefail" -> [error |-> "parse", articles |-> <<>>]
      [] answer = "page" -> [error |-> "none", articles |-> <<PageArticle>>]
      [] OTHER -> fetchArticlesFromFeed(ServedFeed, PlainContentType, feedOpts, AllPagesOk)

\* allArticles.push(...articlesFromURL), or the error of the URL.
Pushed(st, r) ==
    IF r.error # "none" THEN [st EXCEPT !.error = r.error, !.fetches = @ + 1]
    ELSE [st EXCEPT !.fetches = @ + 1, !.articles = @ \o r.articles]

\* for (const articleURL of articleURLs), from the k-th URL on: a URL that
\* throws ends the loop.
RECURSIVE FetchAll(_, _, _, _)
RECURSIVE FetchRest(_, _, _, _)
FetchRest(st, urls, feedOpts, k) ==
    IF st.error # "none" THEN st ELSE FetchAll(st, urls, feedOpts, k)

FetchAll(st, urls, feedOpts, k) ==
    IF k > Len(urls) THEN st
    ELSE FetchRest(Pushed(st, fetchArticlesFromURL(urls[k], feedOpts)), urls, feedOpts, k + 1)

\* A run of main before it has done anything.
NoRun == [threw |-> FALSE, returned |-> 0, fetches |-> 0, books |-> <<>>, mailed |-> FALSE]

\* main after the fetch loop ended as `got`: one EPUB of all the articles
\* is built and written, and mailed when --to is given.
\* transport: buildNodemailerFromTransportConfig rejects for "missing".
Built(params, got, transport, mail) ==
    IF got.error # "none" THEN [NoRun EXCEPT !.threw = TRUE, !.fetches = got.fetches]
    ELSE [NoRun EXCEPT
            !.fetches = got.fetches,
            !.books = <<got.articles>>,
            !.threw = ~Falsy(params.to) /\ (transport = "missing" \/ mail = "fails"),
            !.mailed = ~Falsy(params.to) /\ transport # "missing" /\ mail # "fails"]

\* main: what it returned or that it threw, the URLs it fetched, the EPUB
\* files it wrote (the chapters of each) and whether the mail went out.
main(params, urls, transport, mail) ==
    IF ~Falsy(params.to) /\ Falsy(params.transport) THEN [NoRun EXCEPT !.returned = 1]
    ELSE IF ~Falsy(params.order) /\ ~isFeedOrder(params.order)
         THEN [NoRun EXCEPT !.returned = 1]
    ELSE Built(params,
               FetchAll([error |-> "none", fetches |-> 0, articles |-> <<>>],
                        urls, FeedOptsOf(params), 1),
               transport, mail)

\* main().then(code => exit(code)).catch(error => log): a rejection is
\* logged and the process ends on its own, with the exit code 0 of a
\* process that set none.
ExitCode(r) == IF r.threw THEN 0 ELSE r.returned

\* The record of a run: what it was given, and how main and the process ended.
RunOf(params, urls, transport, mail, r) ==
    [ran |-> TRUE, params |-> params, urls |-> urls,
     mail |-> IF transport = "missing" THEN "missing" ELSE mail,
     threw |-> r.threw, returned |-> r.returned, exit |-> ExitCode(r),
     fetches |-> r.fetches, books |-> r.books, mailed |-> r.mailed]

Main(params, urls, transport, mail) ==
    /\ ~cli.ran
    /\ cli' = RunOf(params, urls, transport, mail, main(params, urls, transport, mail))
    /\ UNCHANGED <<cacheFile, htmlFiles, feed, runs, last, delivered, query, fetched>>

NextMain ==
    \E params \in Params : \E urls \in UrlLists :
        \E transport \in {"found", "missing"} : \E mail \in {"ok", "fails"} :
            Main(params, urls, transport, mail)

SpecMain == Init /\ [][NextMain]_vars

\* An option is given when parseArgs hands over a string that is not empty.
Given(v) == v \notin {Undefined, ""}

\* Nothing main depends on failed: every URL answered and parsed, and the
\* mail, when asked for, went through a transport that exists.
PipelineFine ==
    /\ \A k \in 1..Len(cli.urls) : cli.urls[k] \in {"page", "feed"}
    /\ Given(cli.params.to) => cli.mail = "ok"

InvalidOptions ==
    \/ Given(cli.params.to) /\ ~Given(cli.params.transport)
    \/ Given(cli.params.order) /\ cli.params.order # "date"

C22_ModeSelectsBooks ==
    (cli.ran /\ ~cli.threw /\ cli.returned = 0) =>
        /\ cli.params.mode = "individual" => \A k \in 1..Len(cli.books) : Len(cli.books[k]) = 1
        /\ cli.params.mode = "bundle" => Len(cli.books) = 1

\* C29: when main throws (a URL answers a status that is not OK, an
\* article does not parse, the transport is not in the config, the mail is
\* refused) the process does not end with exit code 0; exit code 0 means
\* the whole pipeline succeeded.
C29_ErrorExitsNonZero ==
    cli.ran =>
        /\ cli.threw => cli.exit # 0
        /\ cli.exit = 0 => PipelineFine

====
